---- MODULE Spec2Model ----
(***************************************************************************)
(* Model of functions/tips/index.js: the handlers of one execution        *)
(* environment (one loaded module).  Node runs each handler and each       *)
(* event listener to completion, so every action below is one such run.    *)
(***************************************************************************)
EXTENDS Integers, Sequences, FiniteSets, TLC

\* ------------------------------------------------------------------ bounds

\* scopeDemo and lazyGlobals invocations served by the environment.
MaxRequests == 6
\* ephemeralAgent and cachedAgent invocations served by the environment.
MaxCalls == 2
\* 'data' events delivered to the environment's inner responses, in total.
MaxChunks == 3
\* Events delivered to the environment's background functions.
MaxEvents == 3

\* ------------------------------------------------------- JavaScript values

Undefined == [type |-> "undefined"]
NaN == [type |-> "NaN"]
Num(n) == [type |-> "number", val |-> n]
Error(m) == [type |-> "Error", message |-> m]

\* ToBoolean of the values the module holds: undefined, NaN and 0 are falsy.
Truthy(v) == v.type = "number" /\ v.val # 0

\* a || b
JsOr(a, b) == IF Truthy(a) THEN a ELSE b

\* a - b on numbers; NaN is absorbing.
JsSub(a, b) == IF a.type = "number" /\ b.type = "number" THEN Num(a.val - b.val) ELSE NaN

\* a > b on numbers; every comparison with NaN is false.
JsGt(a, b) == a.type = "number" /\ b.type = "number" /\ a.val > b.val

\* ${v} in a template literal.
JsToString(v) ==
  CASE v.type = "number" -> ToString(v.val)
    [] v.type = "NaN" -> "NaN"
    [] v.type = "undefined" -> "undefined"
    [] v.type = "Error" -> "Error: " \o v.message

\* ------------------------------------------------------------ computations

numbers == <<1, 2, 3, 4, 5, 6, 7, 8, 9>>

\* Array.prototype.reduce without an initial value: the accumulator starts at
\* the first element and the callback f is applied from the second on.
RECURSIVE ReduceFrom(_, _, _, _)
ReduceFrom(f, s, i, t) ==
  IF i > Len(s) THEN t ELSE ReduceFrom(f, s, i + 1, f[t, s[i]])

Reduce(f, s) == ReduceFrom(f, s, 2, s[1])

\* (t, x) => t + x
Add == [t \in Int, x \in Int |-> t + x]
\* (t, x) => t * x
Mul == [t \in Int, x \in Int |-> t * x]

lightComputation == Num(Reduce(Add, numbers))

heavyComputation == Num(Reduce(Mul, numbers))

functionSpecificComputation == heavyComputation
fileWideComputation == lightComputation

\* ------------------------------------------------------------------- state

VARIABLES
  loaded,        \* the module has been evaluated (the environment's cold start)
  instanceVar,   \* const instanceVar
  nonLazyGlobal, \* const nonLazyGlobal
  lazyGlobal,    \* let lazyGlobal
  agent,         \* const agent: the identity of the http.Agent it holds
  agents,        \* identities of the http.Agent objects constructed so far
  computed,      \* how often the computation at each call site has run
  responses,     \* res.end(...) of the scopeDemo and lazyGlobals invocations
  calls,         \* the ephemeralAgent and cachedAgent invocations
  background     \* the invocations of the background functions

vars == <<loaded, instanceVar, nonLazyGlobal, lazyGlobal, agent, agents,
          computed, responses, calls, background>>

\* Call sites of the computations.
Sites == {"instanceVar", "functionVar", "nonLazyGlobal", "lazyGlobal"}

\* The agent http.request uses when its options name none.
GlobalAgent == "http.globalAgent"

\* Identity of the k-th agent constructed with new http.Agent.
NewAgent(k) == <<"http.Agent", k>>

Init ==
  /\ loaded = FALSE
  /\ instanceVar = Undefined
  /\ nonLazyGlobal = Undefined
  /\ lazyGlobal = Undefined
  /\ agent = Undefined
  /\ agents = {}
  /\ computed = [s \in Sites |-> 0]
  /\ responses = <<>>
  /\ calls = <<>>
  /\ background = <<>>

\* Evaluation of the module's top level at cold start.
Load ==
  /\ ~loaded
  /\ loaded' = TRUE
  /\ instanceVar' = heavyComputation
  /\ nonLazyGlobal' = fileWideComputation
  /\ lazyGlobal' = Undefined
  /\ agent' = NewAgent(Cardinality(agents) + 1)
  /\ agents' = agents \cup {NewAgent(Cardinality(agents) + 1)}
  /\ computed' = [computed EXCEPT !["instanceVar"] = @ + 1, !["nonLazyGlobal"] = @ + 1]
  /\ UNCHANGED <<responses, calls, background>>

\* -------------------------------------------------------------- scopeDemo

CanRequest == loaded /\ Len(responses) < MaxRequests

\* A bug scopeDemo could have: the instance-wide computation inside the handler.
scopeDemoRecomputing ==
  /\ CanRequest
  /\ LET functionVar == lightComputation
     IN responses' = Append(responses,
          [fn |-> "scopeDemo",
           instance |-> heavyComputation,
           function |-> functionVar,
           body |-> "Per instance: " \o JsToString(heavyComputation)
                      \o ", per function: " \o JsToString(functionVar)])
  /\ computed' = [computed EXCEPT !["functionVar"] = @ + 1, !["instanceVar"] = @ + 1]
  /\ UNCHANGED <<loaded, instanceVar, nonLazyGlobal, lazyGlobal, agent, agents,
                 calls, background>>

scopeDemo ==
  /\ CanRequest
  /\ LET functionVar == lightComputation
     IN responses' = Append(responses,
          [fn |-> "scopeDemo",
           instance |-> instanceVar,
           function |-> functionVar,
           body |-> "Per instance: " \o JsToString(instanceVar)
                      \o ", per function: " \o JsToString(functionVar)])
  /\ computed' = [computed EXCEPT !["functionVar"] = @ + 1]
  /\ UNCHANGED <<loaded, instanceVar, nonLazyGlobal, lazyGlobal, agent, agents,
                 calls, background>>

\* ------------------------------------------------------------ lazyGlobals

\* A bug lazyGlobals could have: the initializer run on every invocation.
lazyGlobalsEager ==
  /\ CanRequest
  /\ lazyGlobal' = functionSpecificComputation
  /\ computed' = [computed EXCEPT !["lazyGlobal"] = @ + 1]
  /\ responses' = Append(responses,
       [fn |-> "lazyGlobals",
        lazy |-> lazyGlobal',
        nonLazy |-> nonLazyGlobal,
        body |-> "Lazy global: " \o JsToString(lazyGlobal')
                   \o ", non-lazy global: " \o JsToString(nonLazyGlobal)])
  /\ UNCHANGED <<loaded, instanceVar, nonLazyGlobal, agent, agents, calls,
                 background>>

\* lazyGlobal = lazyGlobal || functionSpecificComputation(): the right operand
\* is evaluated only when the left one is falsy.
lazyGlobals ==
  /\ CanRequest
  /\ lazyGlobal' = JsOr(lazyGlobal, functionSpecificComputation)
  /\ computed' = [computed EXCEPT
       !["lazyGlobal"] = IF Truthy(lazyGlobal) THEN @ ELSE @ + 1]
  /\ responses' = Append(responses,
       [fn |-> "lazyGlobals",
        lazy |-> lazyGlobal',
        nonLazy |-> nonLazyGlobal,
        body |-> "Lazy global: " \o JsToString(lazyGlobal')
                   \o ", non-lazy global: " \o JsToString(nonLazyGlobal)])
  /\ UNCHANGED <<loaded, instanceVar, nonLazyGlobal, agent, agents, calls,
                 background>>

\* ------------------------------------------- ephemeralAgent, cachedAgent

\* Chunks a 'data' event may carry and messages a transport error may carry.
Chunks == {"ab", "cd"}
Messages == {"boom", "reset"}

CanCall == loaded /\ Len(calls) < MaxCalls

\* The state of one invocation when the handler returns: http.request has been
\* called once with the response callback, the 'error' listener is attached
\* and req.end() has sent the request.  rawData does not exist before the
\* response callback runs.
NewCall(fn, a) ==
  [fn |-> fn,
   agent |-> a,          \* the agent the request goes through
   requests |-> 1,       \* http.request calls made for this invocation
   listening |-> FALSE,  \* the response callback has run
   rawData |-> Undefined,
   chunks |-> <<>>,      \* the chunks this invocation's stream delivered
   ended |-> FALSE,      \* 'end' has been emitted
   error |-> Undefined,  \* the error 'error' was emitted with
   sent |-> <<>>]        \* res.status(s).send(b) calls, in order

HttpFrame == UNCHANGED <<loaded, instanceVar, nonLazyGlobal, lazyGlobal, agent,
                         agents, computed, responses, background>>

\* No agent option: the request goes through http's default agent.
ephemeralAgent ==
  /\ CanCall
  /\ calls' = Append(calls, NewCall("ephemeralAgent", GlobalAgent))
  /\ HttpFrame

\* A bug cachedAgent could have: the agent constructed inside the handler.
cachedAgentConstructing ==
  /\ CanCall
  /\ agents' = agents \cup {NewAgent(Cardinality(agents) + 1)}
  /\ calls' = Append(calls, NewCall("cachedAgent", NewAgent(Cardinality(agents) + 1)))
  /\ UNCHANGED <<loaded, instanceVar, nonLazyGlobal, lazyGlobal, agent,
                 computed, responses, background>>

\* agent: agent
cachedAgent ==
  /\ CanCall
  /\ calls' = Append(calls, NewCall("cachedAgent", agent))
  /\ HttpFrame

\* resInner => { let rawData = ''; resInner.setEncoding('utf8'); ... }
OnResponse(i) ==
  /\ ~calls[i].listening
  /\ calls' = [calls EXCEPT ![i].listening = TRUE, ![i].rawData = ""]
  /\ HttpFrame

\* A bug the 'data' listener could have: one buffer shared by the invocations.
AddChunkShared(cs, i, chunk) ==
  [j \in DOMAIN cs |->
     IF cs[j].listening THEN [cs[j] EXCEPT !.rawData = @ \o chunk] ELSE cs[j]]

\* chunk => { rawData += chunk; }
AddChunk(cs, i, chunk) == [cs EXCEPT ![i].rawData = @ \o chunk]

RECURSIVE TotalChunks(_, _)
TotalChunks(cs, n) == IF n = 0 THEN 0 ELSE Len(cs[n].chunks) + TotalChunks(cs, n - 1)

\* A 'data' event of invocation i's inner response.
OnData(i, chunk) ==
  /\ calls[i].listening
  /\ ~calls[i].ended
  /\ TotalChunks(calls, Len(calls)) < MaxChunks
  /\ calls' = [AddChunk(calls, i, chunk) EXCEPT ![i].chunks = Append(@, chunk)]
  /\ HttpFrame

\* () => { res.status(200).send(`Data: ${rawData}`); }
OnEnd(i) ==
  /\ calls[i].listening
  /\ ~calls[i].ended
  /\ calls' = [calls EXCEPT
       ![i].ended = TRUE,
       ![i].sent = Append(@, [status |-> 200, body |-> "Data: " \o calls[i].rawData])]
  /\ HttpFrame

\* A bug the 'error' listener could have: the request issued again.
OnErrorRetrying(i, e) ==
  /\ calls[i].error = Undefined
  /\ calls' = [calls EXCEPT ![i].error = e, ![i].requests = @ + 1]
  /\ HttpFrame

\* e => { res.status(500).send(`Error: ${e.message}`); }
OnError(i, e) ==
  /\ calls[i].error = Undefined
  /\ calls' = [calls EXCEPT
       ![i].error = e,
       ![i].sent = Append(@, [status |-> 500, body |-> "Error: " \o e.message])]
  /\ HttpFrame

\* ------------------------------------------------- background functions

CanDeliver == loaded /\ Len(background) < MaxEvents

BackgroundFrame == UNCHANGED <<loaded, instanceVar, nonLazyGlobal, lazyGlobal,
                               agent, agents, computed, responses, calls>>

\* Values of Date.now() and of event.timestamp.
Nows == {10000, 10001, 15000}
Timestamps == {"1970-01-01T00:00:00.000Z", "1970-01-01T00:00:05.000Z", "yesterday"}

\* Date.parse: milliseconds since the epoch, NaN for a string that is no date.
DateParse(ts) ==
  CASE ts = "1970-01-01T00:00:00.000Z" -> Num(0)
    [] ts = "1970-01-01T00:00:05.000Z" -> Num(5000)
    [] OTHER -> NaN

eventMaxAge == 10000

\* ${event} of an object.
EventText == "[object Object]"

\* One finished invocation of a background function.
\*   input       the event age, or the value of tryAgain
\*   work        how often the function's own work has run
\*   console     the lines logged
\*   callbacks   the argument lists callback was invoked with, in order
\*   completion  how the function completed: return or throw, and with what
Finished(fn, input, work, console, callbacks, completion) ==
  [fn |-> fn, input |-> input, work |-> work, console |-> console,
   callbacks |-> callbacks, completion |-> completion]

Return(v) == [how |-> "return", value |-> v]
Throw(e) == [how |-> "throw", value |-> e]
\* Promise.reject(e)
Rejected(e) == [type |-> "Promise", state |-> "rejected", reason |-> e]

DroppingLine(eventAge) ==
  "Dropping event " \o EventText \o " with age " \o JsToString(eventAge) \o " ms."
ProcessingLine(eventAge) ==
  "Processing event " \o EventText \o " with age " \o JsToString(eventAge) \o " ms."

\* A bug avoidInfiniteRetries could have: the return after callback() missing.
avoidInfiniteRetriesFallingThrough(now, timestamp) ==
  /\ CanDeliver
  /\ LET eventAge == JsSub(Num(now), DateParse(timestamp))
     IN background' = Append(background,
          IF JsGt(eventAge, Num(eventMaxAge))
          THEN Finished("avoidInfiniteRetries", eventAge, 1,
                        <<DroppingLine(eventAge), ProcessingLine(eventAge)>>,
                        << <<>> >>, Return(Undefined))
          ELSE Finished("avoidInfiniteRetries", eventAge, 1,
                        <<ProcessingLine(eventAge)>>, <<>>, Return(Undefined)))
  /\ BackgroundFrame

avoidInfiniteRetries(now, timestamp) ==
  /\ CanDeliver
  /\ LET eventAge == JsSub(Num(now), DateParse(timestamp))
     IN background' = Append(background,
          IF JsGt(eventAge, Num(eventMaxAge))
          THEN \* console.log(Dropping ...); callback(); return;
               Finished("avoidInfiniteRetries", eventAge, 0,
                        <<DroppingLine(eventAge)>>, << <<>> >>, Return(Undefined))
          ELSE \* console.log(Processing ...) and the end of the function body
               Finished("avoidInfiniteRetries", eventAge, 1,
                        <<ProcessingLine(eventAge)>>, <<>>, Return(Undefined)))
  /\ BackgroundFrame

\* The sample sets its toggle with const tryAgain = false; the handlers are
\* run with each value of it.
TryAgainValues == BOOLEAN

retryPromise(tryAgain) ==
  /\ CanDeliver
  /\ background' = Append(background,
       IF tryAgain
       THEN Finished("retryPromise", tryAgain, 0, <<>>, <<>>,
                     Throw(Error("Retrying...")))
       ELSE Finished("retryPromise", tryAgain, 0, <<>>, <<>>,
                     Return(Rejected(Error("Not retrying...")))))
  /\ BackgroundFrame

\* A bug retryCallback could have: the error passed to callback in both branches.
retryCallbackAlwaysFailing(tryAgain) ==
  /\ CanDeliver
  /\ LET err == Error("Error!")
     IN background' = Append(background,
          IF tryAgain
          THEN Finished("retryCallback", tryAgain, 0,
                        <<"Retrying: " \o JsToString(err)>>, << <<err>> >>,
                        Return(Undefined))
          ELSE Finished("retryCallback", tryAgain, 0,
                        <<"Not retrying: " \o JsToString(err)>>, << <<err>> >>,
                        Return(Undefined)))
  /\ BackgroundFrame

retryCallback(tryAgain) ==
  /\ CanDeliver
  /\ LET err == Error("Error!")
     IN background' = Append(background,
          IF tryAgain
          THEN \* console.error(Retrying ...); callback(err);
               Finished("retryCallback", tryAgain, 0,
                        <<"Retrying: " \o JsToString(err)>>, << <<err>> >>,
                        Return(Undefined))
          ELSE \* console.error(Not retrying ...); callback();
               Finished("retryCallback", tryAgain, 0,
                        <<"Not retrying: " \o JsToString(err)>>, << <<>> >>,
                        Return(Undefined)))
  /\ BackgroundFrame

\* --------------------------------------------------------- specifications

\* The handlers of the scopes and lazy-globals samples.
NextScopes ==
  \/ Load
  \/ scopeDemo
  \/ lazyGlobals

SpecScopes == Init /\ [][NextScopes]_vars

\* The handlers of the agent samples and the events of their requests.
NextAgents ==
  \/ Load
  \/ ephemeralAgent
  \/ cachedAgent
  \/ \E i \in DOMAIN calls : OnResponse(i)
  \/ \E i \in DOMAIN calls, chunk \in Chunks : OnData(i, chunk)
  \/ \E i \in DOMAIN calls : OnEnd(i)
  \/ \E i \in DOMAIN calls, m \in Messages : OnError(i, Error(m))

SpecAgents == Init /\ [][NextAgents]_vars

\* The background functions of the retry samples.
NextRetries ==
  \/ Load
  \/ \E now \in Nows, timestamp \in Timestamps : avoidInfiniteRetries(now, timestamp)
  \/ \E tryAgain \in TryAgainValues : retryPromise(tryAgain)
  \/ \E tryAgain \in TryAgainValues : retryCallback(tryAgain)

SpecRetries == Init /\ [][NextRetries]_vars

\* ------------------------------------------------------------ properties

\* The invocations of handler fn recorded in log.
Of(log, fn) == {k \in DOMAIN log : log[k].fn = fn}

\* The callback was invoked exactly once, with no argument.
AcknowledgedOnce(r) == r.callbacks = << <<>> >>

\* What the invoking runtime is told by a finished background invocation: a
\* thrown error, a returned rejected promise or a callback with an error argument
\* asks for redelivery; a callback without argument reports success.
Signal(r) ==
  CASE r.completion.how = "throw" -> "failure"
    [] r.completion.value # Undefined /\ r.completion.value.state = "rejected" -> "failure"
    [] r.callbacks # <<>> /\ r.callbacks[1] # <<>> -> "failure"
    [] r.callbacks # <<>> /\ r.callbacks[1] = <<>> -> "success"
    [] OTHER -> "none"

\* The send calls of one agent invocation with the given status.
SentWith(c, status) == {k \in DOMAIN c.sent : c.sent[k].status = status}

\* The concatenation of a sequence of strings, in order.
RECURSIVE Join(_)
Join(ss) == IF ss = <<>> THEN "" ELSE ss[1] \o Join(Tail(ss))

\* C1: every avoidInfiniteRetries invocation whose event age is at most 10000,
\* 10000 included, has performed its work and has invoked the completion
\* callback with no error argument by the time it is finished.
C1_YoungEventIsProcessedAndAcknowledged ==
  \A k \in Of(background, "avoidInfiniteRetries") :
    LET r == background[k]
    IN (r.input.type = "number" /\ r.input.val <= 10000)
         => r.work = 1 /\ AcknowledgedOnce(r)

\* C2: every avoidInfiniteRetries invocation whose event age is strictly greater
\* than 10000 has performed none of its work, has logged only the drop, and has
\* invoked the callback exactly once, with no argument, before returning.
C2_OldEventIsDroppedAndAcknowledged ==
  \A k \in Of(background, "avoidInfiniteRetries") :
    LET r == background[k]
    IN (r.input.type = "number" /\ r.input.val > 10000)
         => /\ r.work = 0
            /\ r.console = <<DroppingLine(r.input)>>
            /\ AcknowledgedOnce(r)
            /\ r.completion = Return(Undefined)

C2_Witness ==
  \E k \in Of(background, "avoidInfiniteRetries") :
    /\ background[k].input = Num(10001)
    /\ AcknowledgedOnce(background[k])

\* C3: for each value of the try-again flag, retryPromise and retryCallback tell
\* the runtime the same thing: failure when the flag is true, success when it
\* is false.
C3_SurfacesAgreeWithFlag ==
  \A k \in Of(background, "retryPromise") \cup Of(background, "retryCallback") :
    Signal(background[k]) = IF background[k].input THEN "failure" ELSE "success"

\* C4: every retryCallback invocation has invoked the callback exactly once:
\* with no argument when the flag is false, with the error when it is true.
C4_CallbackFollowsFlag ==
  \A k \in Of(background, "retryCallback") :
    LET r == background[k]
    IN r.callbacks = IF r.input THEN << <<Error("Error!")>> >> ELSE << <<>> >>

C4_Witness ==
  /\ \E k \in Of(background, "retryCallback") : background[k].input
  /\ \E k \in Of(background, "retryCallback") : ~background[k].input

\* C5: lazyGlobal is unset until the first lazyGlobals invocation; the
\* initializer has run exactly once as soon as one invocation has been served,
\* however many follow; and all invocations report the same lazy value.
C5_LazyGlobalInitializedOnce ==
  LET served == Of(responses, "lazyGlobals")
  IN /\ served = {} => lazyGlobal = Undefined /\ computed["lazyGlobal"] = 0
     /\ served # {} => lazyGlobal # Undefined /\ computed["lazyGlobal"] = 1
     /\ \A j, k \in served :
          /\ responses[j].lazy = responses[k].lazy
          /\ responses[j].body = responses[k].body
          /\ responses[j].lazy # Undefined

C5_Witness ==
  /\ Cardinality(Of(responses, "lazyGlobals")) >= 3
  /\ Of(responses, "scopeDemo") # {}

\* C6: an agent invocation has sent no 200 response before its end-of-stream and
\* nothing at all while neither end-of-stream nor an error has occurred; once
\* its stream has ended it has sent exactly one 200 response, whose body is
\* 'Data: ' followed by the chunks of its own stream in arrival order.
C6_DataResponseIsOwnStream ==
  \A i \in DOMAIN calls :
    LET c == calls[i]
    IN /\ ~c.ended => SentWith(c, 200) = {}
       /\ ~c.ended /\ c.error = Undefined => c.sent = <<>>
       /\ c.ended =>
            /\ Cardinality(SentWith(c, 200)) = 1
            /\ \A k \in SentWith(c, 200) : c.sent[k].body = "Data: " \o Join(c.chunks)

C6_Witness ==
  \E i, j \in DOMAIN calls :
    /\ calls[i].fn = "ephemeralAgent" /\ calls[j].fn = "cachedAgent"
    /\ calls[i].chunks = <<"ab", "cd">>
    /\ calls[i].sent = <<[status |-> 200, body |-> "Data: abcd"]>>
    /\ calls[j].chunks = <<"cd">>
    /\ ~calls[j].ended

\* C7: an agent invocation whose request has emitted an error with message m has
\* sent exactly one 500 response, with body 'Error: ' followed by m; one that has
\* not has sent none; and no invocation has issued a second outbound request.
C7_ErrorResponseCarriesMessage ==
  \A i \in DOMAIN calls :
    LET c == calls[i]
    IN /\ c.requests = 1
       /\ c.error = Undefined => SentWith(c, 500) = {}
       /\ c.error # Undefined =>
            /\ Cardinality(SentWith(c, 500)) = 1
            /\ \A k \in SentWith(c, 500) : c.sent[k].body = "Error: " \o c.error.message

C7_Witness ==
  \E i, j \in DOMAIN calls :
    /\ calls[i].fn = "ephemeralAgent" /\ calls[j].fn = "cachedAgent"
    /\ calls[i].sent = <<[status |-> 500, body |-> "Error: boom"]>>
    /\ calls[j].sent = <<[status |-> 500, body |-> "Error: reset"]>>

\* C8: instanceVar has been computed exactly once, at module load, whatever
\* number of scopeDemo invocations has been served; all of them report the same
\* instance value; and the per-function value has been computed once per
\* invocation.
C8_InstanceVarComputedOnce ==
  LET served == Of(responses, "scopeDemo")
  IN /\ computed["instanceVar"] = IF loaded THEN 1 ELSE 0
     /\ loaded => instanceVar = Num(362880)
     /\ \A j, k \in served : responses[j].instance = responses[k].instance
     /\ \A k \in served : responses[k].instance = instanceVar
     /\ computed["functionVar"] = Cardinality(served)

C8_Witness ==
  /\ Cardinality(Of(responses, "scopeDemo")) >= 3
  /\ Of(responses, "lazyGlobals") # {}

\* C9: exactly one agent has been constructed once the module is loaded, none
\* before; the module's agent is that one; and every cachedAgent invocation has
\* issued its request through it.
C9_OneAgentForAllCachedCalls ==
  /\ ~loaded => agents = {}
  /\ loaded => agents = {agent} /\ agent = NewAgent(1)
  /\ \A i \in Of(calls, "cachedAgent") : calls[i].agent = agent /\ calls[i].requests = 1

C9_Witness ==
  /\ Cardinality(Of(calls, "cachedAgent")) >= 2
  /\ \A i \in DOMAIN calls : calls[i].ended

\* C10: under any order of the transport events of one invocation, at most one
\* response has been sent for it.
C10_AtMostOneResponse ==
  \A i \in DOMAIN calls : Len(calls[i].sent) <= 1

====
